---- MODULE Spec2Model ----
(***************************************************************************)
(* Film Mood Board (film_mood_board.py): a Streamlit script that is run    *)
(* from top to bottom on every widget event.  Session state (favorites,    *)
(* current_movie) and the text input's value survive between runs.         *)
(*                                                                         *)
(* Spec      the session: one action per widget event / script run         *)
(* SpecFav   the favorites operations add / remove as pure functions       *)
(* SpecView  the display of one detail payload as pure functions           *)
(***************************************************************************)
EXTENDS Integers, Sequences, FiniteSets, TLC

VARIABLES
    pc,             \* "idle": run finished, waiting for an event; "rerun":
                    \* st.experimental_rerun() pending; "stopped": st.stop()
    movie_query,    \* value of the text input
    favorites,      \* st.session_state.favorites
    current_movie,  \* st.session_state.current_movie
    nsearch,        \* number of searches that returned a result so far
    messages,       \* what the last run reported with st.error / st.success
    requests,       \* the HTTP requests the last run issued, in order
    search_resp,    \* how the last run's search request ended
    fav0, fav_title, fav, fav_ops,   \* SpecFav
    payload, view                    \* SpecView

session_vars == <<pc, movie_query, favorites, current_movie, nsearch,
                  messages, requests, search_resp>>
fav_vars == <<fav0, fav_title, fav, fav_ops>>
view_vars == <<payload, view>>
vars == <<session_vars, fav_vars, view_vars>>

(***************************************************************************)
(* Bounds                                                                  *)
(***************************************************************************)
MaxSearches == 3        \* searches with a result in one behaviour
NumIds == 2             \* movie ids the search can return
MaxFavLen == 3          \* length of the favorites lists SpecFav starts from

Titles == {"Alien", "Heat"}
Queries == {"alien", "heat"}
MovieIds == 1..NumIds
Absent == "<absent>"    \* a key the JSON object does not carry
Null == "<null>"        \* a key carried with the JSON value null

(***************************************************************************)
(* Favorites                                                               *)
(***************************************************************************)
contains(favs, title) == \E i \in 1..Len(favs) : favs[i] = title

\* Python list.remove: drops the first occurrence
list_remove(favs, title) ==
    LET i == CHOOSE k \in 1..Len(favs) :
                 favs[k] = title /\ \A j \in 1..(k - 1) : favs[j] # title
    IN  SubSeq(favs, 1, i - 1) \o SubSeq(favs, i + 1, Len(favs))

add_Unguarded(favs, title) == Append(favs, title)

\* the append is reached only when the title is not in the list
add(favs, title) == IF contains(favs, title) THEN favs ELSE Append(favs, title)

remove_KeepsOnlyTitle(favs, title) == SelectSeq(favs, LAMBDA f : f = title)

\* the remove is reached only for a title that is in the list
remove(favs, title) ==
    IF contains(favs, title) THEN list_remove(favs, title) ELSE favs

is_favorited(favs, movie_title) == contains(favs, movie_title)

button_text(favorited) ==
    IF favorited THEN "Remove from Favorites" ELSE "Add to Favorites"

ToggleFavorite_AlwaysAppend(favs, movie_title) == Append(favs, movie_title)

ToggleFavorite(favs, movie_title) ==
    IF is_favorited(favs, movie_title)
    THEN remove(favs, movie_title)
    ELSE add(favs, movie_title)

ToggleMessage(favs, movie_title) ==
    IF is_favorited(favs, movie_title) THEN "Removed" ELSE "Added"

(***************************************************************************)
(* API client                                                              *)
(***************************************************************************)
None == [id |-> 0, title |-> "", fetched_for |-> 0]
NoResult == 0

\* what the provider can answer to the search and to the detail request
SearchResponses ==
    {[status |-> "error", id |-> NoResult], [status |-> "empty", id |-> NoResult]}
    \cup {[status |-> "found", id |-> i] : i \in MovieIds}
DetailResponses ==
    {[status |-> "error", title |-> Absent]}
    \cup {[status |-> "ok", title |-> t] : t \in Titles \cup {Absent}}

search_movie_Silent(resp) ==
    [result |-> IF resp.status = "found" THEN resp.id ELSE NoResult,
     messages |-> {}]

search_movie(resp) ==
    IF resp.status = "error"
    THEN [result |-> NoResult, messages |-> {"NetworkError: search"}]
    ELSE IF resp.status = "empty"
    THEN [result |-> NoResult, messages |-> {}]
    ELSE [result |-> resp.id, messages |-> {}]

get_movie_details_ErrorBody(movie_id, resp, n) ==
    IF resp.status = "error"
    THEN [detail |-> [id |-> movie_id, title |-> "N/A", fetched_for |-> n],
          messages |-> {"NetworkError: detail"}]
    ELSE [detail |-> [id |-> movie_id,
                      title |-> IF resp.title = Absent THEN "N/A" ELSE resp.title,
                      fetched_for |-> n],
          messages |-> {}]

\* n numbers the search whose result the detail is fetched for; the title
\* is read with movie.get("title", "N/A")
get_movie_details(movie_id, resp, n) ==
    IF resp.status = "error"
    THEN [detail |-> None, messages |-> {"NetworkError: detail"}]
    ELSE [detail |-> [id |-> movie_id,
                      title |-> IF resp.title = Absent THEN "N/A" ELSE resp.title,
                      fetched_for |-> n],
          messages |-> {}]

(***************************************************************************)
(* Search handling: if movie_query: ... else current_movie is left alone   *)
(***************************************************************************)
SearchHandling_NoClear(cur, query, sresp, dresp, n) ==
    IF query = ""
    THEN [current_movie |-> cur, messages |-> {}, requests |-> <<>>,
          nsearch |-> n, search_resp |-> "none"]
    ELSE LET s == search_movie(sresp) IN
         IF s.result # NoResult
         THEN LET d == get_movie_details(s.result, dresp, n + 1) IN
              [current_movie |-> d.detail,
               messages |-> s.messages \cup d.messages,
               requests |-> <<"search", "detail">>,
               nsearch |-> n + 1, search_resp |-> sresp.status]
         ELSE [current_movie |-> cur,
               messages |-> s.messages \cup {"NotFound"},
               requests |-> <<"search">>,
               nsearch |-> n, search_resp |-> sresp.status]

SearchHandling_KeepOnDetailFailure(cur, query, sresp, dresp, n) ==
    IF query = ""
    THEN [current_movie |-> cur, messages |-> {}, requests |-> <<>>,
          nsearch |-> n, search_resp |-> "none"]
    ELSE LET s == search_movie(sresp) IN
         IF s.result # NoResult
         THEN LET d == get_movie_details(s.result, dresp, n + 1) IN
              [current_movie |-> IF d.detail # None THEN d.detail ELSE cur,
               messages |-> s.messages \cup d.messages,
               requests |-> <<"search", "detail">>,
               nsearch |-> n + 1, search_resp |-> sresp.status]
         ELSE [current_movie |-> None,
               messages |-> s.messages \cup {"NotFound"},
               requests |-> <<"search">>,
               nsearch |-> n, search_resp |-> sresp.status]

SearchHandling(cur, query, sresp, dresp, n) ==
    IF query = ""
    THEN [current_movie |-> cur, messages |-> {}, requests |-> <<>>,
          nsearch |-> n, search_resp |-> "none"]
    ELSE LET s == search_movie(sresp) IN
         IF s.result # NoResult
         THEN LET d == get_movie_details(s.result, dresp, n + 1) IN
              [current_movie |-> d.detail,
               messages |-> s.messages \cup d.messages,
               requests |-> <<"search", "detail">>,
               nsearch |-> n + 1, search_resp |-> sresp.status]
         ELSE [current_movie |-> None,
               messages |-> s.messages \cup {"NotFound"},
               requests |-> <<"search">>,
               nsearch |-> n, search_resp |-> sresp.status]

(***************************************************************************)
(* One run of the script from the search bar down, for the text input      *)
(* value `query` and the main button `click`ed ("" when none was): the     *)
(* button is identified by its label, so a click counts only if this run   *)
(* renders the button with the label that was clicked.                     *)
(***************************************************************************)
ScriptRun(click, query, sresp, dresp) ==
    LET S == SearchHandling(current_movie, query, sresp, dresp, nsearch)
        movie_title == S.current_movie.title
        pressed == /\ S.current_movie # None
                   /\ click = button_text(is_favorited(favorites, movie_title))
    IN  /\ S.nsearch <= MaxSearches
        /\ movie_query' = query
        /\ current_movie' = S.current_movie
        /\ nsearch' = S.nsearch
        /\ requests' = S.requests
        /\ search_resp' = S.search_resp
        /\ favorites' = IF pressed THEN ToggleFavorite(favorites, movie_title)
                                   ELSE favorites
        /\ messages' = IF pressed
                       THEN S.messages \cup {ToggleMessage(favorites, movie_title)}
                       ELSE S.messages
        /\ pc' = IF pressed THEN "rerun" ELSE "idle"

\* the user changes the text input
SubmitQuery ==
    /\ pc = "idle"
    /\ \E q \in (Queries \cup {""}) \ {movie_query} :
       \E sresp \in SearchResponses, dresp \in DetailResponses :
           ScriptRun("", q, sresp, dresp)
    /\ UNCHANGED <<fav_vars, view_vars>>

\* the user clicks the Add / Remove button of the movie on screen
ClickFavoriteButton ==
    /\ pc = "idle"
    /\ current_movie # None
    /\ \E sresp \in SearchResponses, dresp \in DetailResponses :
           ScriptRun(button_text(is_favorited(favorites, current_movie.title)),
                     movie_query, sresp, dresp)
    /\ UNCHANGED <<fav_vars, view_vars>>

\* the user clicks a title in the sidebar: display_favorites removes it and
\* reruns before the search bar is reached
ClickSidebarRemove ==
    /\ pc = "idle"
    /\ \E i \in 1..Len(favorites) :
           favorites' = remove(favorites, favorites[i])
    /\ pc' = "rerun"
    /\ messages' = {}
    /\ requests' = <<>>
    /\ search_resp' = "none"
    /\ UNCHANGED <<movie_query, current_movie, nsearch, fav_vars, view_vars>>

\* the run st.experimental_rerun() asked for: no widget was clicked
Rerun ==
    /\ pc = "rerun"
    /\ \E sresp \in SearchResponses, dresp \in DetailResponses :
           ScriptRun("", movie_query, sresp, dresp)
    /\ UNCHANGED <<fav_vars, view_vars>>

FavIdle ==
    /\ fav0 = <<>> /\ fav_title = "" /\ fav = <<>> /\ fav_ops = <<>>
ViewIdle ==
    /\ payload = [kind |-> "none"] /\ view = [kind |-> "none"]
SessionIdle ==
    /\ pc = "stopped" /\ movie_query = "" /\ favorites = <<>>
    /\ current_movie = None /\ nsearch = 0 /\ messages = {}
    /\ requests = <<>> /\ search_resp = "none"

\* first run: the API key is in the secrets, or the script stops
Init ==
    /\ pc \in {"idle", "stopped"}
    /\ movie_query = ""
    /\ favorites = <<>>
    /\ current_movie = None
    /\ nsearch = 0
    /\ messages = {}
    /\ requests = <<>>
    /\ search_resp = "none"
    /\ FavIdle /\ ViewIdle

Next == SubmitQuery \/ ClickFavoriteButton \/ ClickSidebarRemove \/ Rerun

Spec == Init /\ [][Next]_vars


(***************************************************************************)
(* Properties of the session                                               *)
(***************************************************************************)
NetworkErrors == {"NetworkError: search", "NetworkError: detail"}

\* C1: in every reachable state the favorites list holds no title more
\* than once.
NoDuplicateFavorites ==
    \A i, j \in 1..Len(favorites) : i # j => favorites[i] # favorites[j]

\* a second title was just added, for a movie fetched by a later search
NoDuplicateFavorites_Witness ==
    /\ pc = "rerun" /\ "Added" \in messages
    /\ Len(favorites) >= 2 /\ current_movie.fetched_for >= 2

\* C4: a run whose search ends with zero results reports NotFound, clears
\* the current movie and leaves the favorites as they were.
NotFoundClearsMovieKeepsFavorites ==
    [][search_resp' = "empty" =>
          /\ "NotFound" \in messages'
          /\ current_movie' = None
          /\ favorites' = favorites]_vars

\* zero results after a movie had been fetched and a favorite added
NotFoundClearsMovieKeepsFavorites_Witness ==
    /\ search_resp = "empty" /\ "NotFound" \in messages
    /\ nsearch >= 1 /\ favorites # <<>> /\ current_movie = None

\* C5: a run in which the search or the detail request fails leaves the
\* favorites as they were and ends with the session waiting for the next
\* event.
NetworkErrorKeepsFavoritesAndSession ==
    [][messages' \cap NetworkErrors # {} =>
          /\ favorites' = favorites
          /\ pc' = "idle"]_vars

\* the detail request failed in a session that has favorites
NetworkErrorKeepsFavoritesAndSession_Witness ==
    /\ "NetworkError: detail" \in messages
    /\ favorites # <<>> /\ pc = "idle" /\ nsearch >= 2

\* C6: a current movie, when present, is the detail fetched for the most
\* recent search that returned a result.
CurrentMovieIsLatestSearch ==
    current_movie # None => current_movie.fetched_for = nsearch

\* the movie of the second search is still shown after the query was
\* emptied, with a favorite in the list
CurrentMovieIsLatestSearch_Witness ==
    /\ current_movie # None /\ nsearch >= 2
    /\ movie_query = "" /\ favorites # <<>>

\* C10: a run whose search request fails reports the network failure and
\* NotFound, issues no detail request and sets the current movie to none.
SearchFailureReportsBothAndClears ==
    [][search_resp' = "error" =>
          /\ {"NetworkError: search", "NotFound"} \subseteq messages'
          /\ requests' = <<"search">>
          /\ current_movie' = None]_vars

\* the search failed after an earlier search had fetched a movie
SearchFailureReportsBothAndClears_Witness ==
    /\ search_resp = "error" /\ nsearch >= 1
    /\ requests = <<"search">> /\ current_movie = None


(***************************************************************************)
(* SpecFav: add and remove applied to a favorites list the session can     *)
(* hold (no title twice), for one title                                    *)
(***************************************************************************)
MaxOps == 2             \* operations applied in one behaviour

FavTitles == Titles \cup {"N/A"}

RECURSIVE ListsOver(_, _)
\* the lists over S of length <= n that hold no element twice
ListsOver(S, n) ==
    IF n = 0 THEN {<<>>}
    ELSE LET shorter == ListsOver(S, n - 1)
         IN  shorter \cup {Append(l, x) : <<l, x>> \in
                              {<<l, x>> \in shorter \X S : ~contains(l, x)}}

Occurrences(favs, title) == Cardinality({i \in 1..Len(favs) : favs[i] = title})

FavInit ==
    /\ fav0 \in ListsOver(FavTitles, MaxFavLen)
    /\ fav_title \in FavTitles
    /\ fav = fav0
    /\ fav_ops = <<>>
    /\ SessionIdle /\ ViewIdle

FavAdd ==
    /\ Len(fav_ops) < MaxOps
    /\ fav' = add(fav, fav_title)
    /\ fav_ops' = Append(fav_ops, "add")
    /\ UNCHANGED <<fav0, fav_title, session_vars, view_vars>>

FavRemove ==
    /\ Len(fav_ops) < MaxOps
    /\ fav' = remove(fav, fav_title)
    /\ fav_ops' = Append(fav_ops, "remove")
    /\ UNCHANGED <<fav0, fav_title, session_vars, view_vars>>

FavNext == FavAdd \/ FavRemove

SpecFav == FavInit /\ [][FavNext]_vars

\* C2 as stated: add(t) then remove(t) gives back the list, whether or not
\* t was in it before the add.
AddThenRemoveRestores ==
    fav_ops = <<"add", "remove">> => fav = fav0

\* C2 amended: for a title that is not in the list, add(t) then remove(t)
\* gives back the list, same members in the same order.
AddThenRemoveRestoresIfAbsent ==
    (fav_ops = <<"add", "remove">> /\ ~contains(fav0, fav_title)) => fav = fav0

AddThenRemoveRestoresIfAbsent_Witness ==
    /\ fav_ops = <<"add", "remove">> /\ ~contains(fav0, fav_title)
    /\ Len(fav0) >= 2 /\ fav = fav0

\* C3: add of a title in the list changes nothing, add(t) twice leaves
\* exactly one t, and remove of a title not in the list changes nothing.
AddIdempotentRemoveAbsentNoOp ==
    /\ (fav_ops = <<"add", "add">> => Occurrences(fav, fav_title) = 1)
    /\ (fav_ops = <<"add">> /\ contains(fav0, fav_title) => fav = fav0)
    /\ (fav_ops = <<"remove">> /\ ~contains(fav0, fav_title) => fav = fav0)

AddIdempotentRemoveAbsentNoOp_Witness ==
    /\ fav_ops = <<"add", "add">> /\ ~contains(fav0, fav_title)
    /\ Len(fav0) >= 1 /\ Len(fav) = Len(fav0) + 1


(***************************************************************************)
(* SpecView: what the script displays for one detail payload               *)
(***************************************************************************)
MaxCast == 12           \* cast entries in a payload
MaxBackdrops == 11      \* backdrops in a payload
MaxSimilar == 10        \* similar titles in a payload
MaxWithoutImage == 1    \* entries of one list that carry no image path
MaxVideos == 3          \* videos in a payload
MaxGenres == 2          \* genres in a payload

CastShown == 10
BackdropsShown == 9
SimilarShown == 8

Min(a, b) == IF a < b THEN a ELSE b
Prefix(s, n) == SubSeq(s, 1, Min(Len(s), n))

RECURSIVE SubsetsUpTo(_, _)
\* the subsets of S with at most k elements
SubsetsUpTo(S, k) ==
    IF k = 0 THEN {{}}
    ELSE LET smaller == SubsetsUpTo(S, k - 1)
         IN  smaller \cup {w \cup {x} : <<w, x>> \in smaller \X S}

\* lists of n entries numbered in payload order; the entries whose number
\* is in `without` carry no image path
Entries(n, without) == [i \in 1..n |-> [name |-> i, has_image |-> i \notin without]]
EntryLists(max) ==
    UNION {{Entries(n, w) : w \in SubsetsUpTo(1..n, MaxWithoutImage)} : n \in 0..max}

\* tab2: for person in cast[:10]: if person.get("profile_path"): image, name
CastView(cast) ==
    [kind |-> "cast",
     shown |-> SelectSeq(Prefix(cast, CastShown), LAMBDA person : person.has_image),
     info |-> cast = <<>>]

\* tab3: every one of backdrops[:9] becomes an image URL
StillsView(backdrops) ==
    [kind |-> "stills",
     shown |-> Prefix(backdrops, BackdropsShown),
     info |-> backdrops = <<>>]

\* tab4: for smovie in similar_movies[:8]: if smovie.get("poster_path"): image
SimilarView(similar_movies) ==
    [kind |-> "similar",
     shown |-> SelectSeq(Prefix(similar_movies, SimilarShown),
                         LAMBDA smovie : smovie.has_image),
     info |-> similar_movies = <<>>]

RenderCast ==
    /\ payload.kind = "cast" /\ view.kind = "none"
    /\ view' = CastView(payload.list)
    /\ UNCHANGED <<payload, session_vars, fav_vars>>

RenderStills ==
    /\ payload.kind = "stills" /\ view.kind = "none"
    /\ view' = StillsView(payload.list)
    /\ UNCHANGED <<payload, session_vars, fav_vars>>

RenderSimilar ==
    /\ payload.kind = "similar" /\ view.kind = "none"
    /\ view' = SimilarView(payload.list)
    /\ UNCHANGED <<payload, session_vars, fav_vars>>

\* ---- trailer ----
VideoTypes == {"Trailer", "Teaser"}
VideoSites == {"YouTube", "Vimeo"}
NoTrailer == ""
VideoKey(i) == "key" \o ToString(i)
VideoLists ==
    UNION {{[i \in 1..n |-> [type |-> f[i][1], site |-> f[i][2], key |-> VideoKey(i)]]
               : f \in [1..n -> VideoTypes \X VideoSites]} : n \in 0..MaxVideos}

RECURSIVE select_trailer_AnySite(_)
select_trailer_AnySite(videos) ==
    IF videos = <<>> THEN NoTrailer
    ELSE IF Head(videos).type = "Trailer"
         THEN Head(videos).key
         ELSE select_trailer_AnySite(Tail(videos))

RECURSIVE select_trailer(_)
\* next((v for v in videos if type == "Trailer" and site == "YouTube"), None)
select_trailer(videos) ==
    IF videos = <<>> THEN NoTrailer
    ELSE IF Head(videos).type = "Trailer" /\ Head(videos).site = "YouTube"
         THEN Head(videos).key
         ELSE select_trailer(Tail(videos))

\* movie.get("videos", {}).get("results", [])
TrailerView(has_videos, results) ==
    LET videos == IF has_videos THEN results ELSE <<>>
        trailer == select_trailer(videos)
    IN  [kind |-> "trailer",
         trailer |-> trailer,
         video |-> IF trailer # NoTrailer
                   THEN "https://www.youtube.com/watch?v=" \o trailer
                   ELSE "",
         info |-> trailer = NoTrailer]

RenderTrailer ==
    /\ payload.kind = "trailer" /\ view.kind = "none"
    /\ view' = TrailerView(payload.has_videos, payload.videos)
    /\ UNCHANGED <<payload, session_vars, fav_vars>>

\* ---- header: release date, rating, genres, runtime ----
RatingsTenths == {0, 5, 79, 100}     \* vote_average, in tenths
Runtimes == {0, 128}
GenreNames == {"Drama", "Comedy"}
ReleaseDates == {"2016-12-09"}

Optional(values) ==
    {[has |-> "absent", val |-> 0], [has |-> "null", val |-> 0]}
    \cup {[has |-> "value", val |-> v] : v \in values}
GenreLists == UNION {[1..n -> GenreNames] : n \in 0..MaxGenres}
OptionalGenres ==
    {[has |-> "absent", val |-> <<>>], [has |-> "null", val |-> <<>>]}
    \cup {[has |-> "value", val |-> g] : g \in GenreLists}

FormatRating_NoDecimals(tenths) == ToString(tenths \div 10) \o "/10"

\* f"{x:.1f}/10" for x = tenths / 10
FormatRating(tenths) ==
    ToString(tenths \div 10) \o "." \o ToString(tenths % 10) \o "/10"

RECURSIVE Join(_)
\* ", ".join(names)
Join(names) ==
    IF names = <<>> THEN ""
    ELSE IF Len(names) = 1 THEN names[1]
    ELSE names[1] \o ", " \o Join(Tail(names))

\* dict.get(key, default): the default only for a key that is absent
Get(field, default) == IF field.has = "absent" THEN default ELSE field.val

\* formatting null with .1f and iterating over null raise TypeError
HeaderView(p) ==
    IF p.vote_average.has = "null" \/ p.genres.has = "null"
    THEN [kind |-> "header", error |-> TRUE, release_date |-> "", rating |-> "",
          genre_names |-> <<>>, genres |-> "", runtime |-> ""]
    ELSE LET genre_names == Get(p.genres, <<>>) IN
         [kind |-> "header", error |-> FALSE,
          release_date |-> IF p.release_date = Absent THEN "N/A"
                           ELSE IF p.release_date = Null THEN "None"
                           ELSE p.release_date,
          rating |-> FormatRating(Get(p.vote_average, 0)),
          genre_names |-> genre_names,
          genres |-> Join(genre_names),
          runtime |-> IF p.runtime.has = "null" THEN "None min"
                      ELSE ToString(Get(p.runtime, 0)) \o " min"]

RenderHeader ==
    /\ payload.kind = "header" /\ view.kind = "none"
    /\ view' = HeaderView(payload)
    /\ UNCHANGED <<payload, session_vars, fav_vars>>

Payloads ==
    {[kind |-> "cast", list |-> l] : l \in EntryLists(MaxCast)}
    \cup {[kind |-> "stills", list |-> Entries(n, {})] : n \in 0..MaxBackdrops}
    \cup {[kind |-> "similar", list |-> l] : l \in EntryLists(MaxSimilar)}
    \cup {[kind |-> "trailer", has_videos |-> TRUE, videos |-> v] : v \in VideoLists}
    \cup {[kind |-> "trailer", has_videos |-> FALSE, videos |-> <<>>]}
    \cup [kind : {"header"},
          release_date : ReleaseDates \cup {Absent, Null},
          vote_average : Optional(RatingsTenths),
          genres : OptionalGenres,
          runtime : Optional(Runtimes)]

ViewInit ==
    /\ payload \in Payloads
    /\ view = [kind |-> "none"]
    /\ SessionIdle /\ FavIdle

ViewNext ==
    RenderCast \/ RenderStills \/ RenderSimilar \/ RenderTrailer \/ RenderHeader

SpecView == ViewInit /\ [][ViewNext]_vars

Names(entries) == [i \in 1..Len(entries) |-> entries[i].name]

\* C7 as stated: the view shows exactly the leading min(n,10) cast entries,
\* min(m,9) backdrops and min(k,8) similar titles of the payload, in payload
\* order, whatever optional fields the entries carry.
ViewShowsLeadingEntries ==
    /\ view.kind = "cast" =>
           Names(view.shown) = [i \in 1..Min(Len(payload.list), 10) |-> i]
    /\ view.kind = "stills" =>
           Names(view.shown) = [i \in 1..Min(Len(payload.list), 9) |-> i]
    /\ view.kind = "similar" =>
           Names(view.shown) = [i \in 1..Min(Len(payload.list), 8) |-> i]

Matches(v) == v.type = "Trailer" /\ v.site = "YouTube"

\* C8: the trailer shown is the key of the first video, in list order, of
\* type "Trailer" on site "YouTube"; without such a video (or without a
\* video list) no trailer is shown.
TrailerIsFirstMatch ==
    view.kind = "trailer" =>
        LET videos == payload.videos
            matching == {i \in 1..Len(videos) : Matches(videos[i])}
        IN  IF matching = {}
            THEN view.trailer = NoTrailer /\ view.info
            ELSE \E i \in matching :
                     /\ \A j \in matching : i <= j
                     /\ view.trailer = videos[i].key
                     /\ ~view.info

\* a trailer on another site comes first, two matching videos follow
TrailerIsFirstMatch_Witness ==
    /\ view.kind = "trailer" /\ Len(payload.videos) = 3
    /\ payload.videos[1].type = "Trailer" /\ payload.videos[1].site = "Vimeo"
    /\ Matches(payload.videos[2]) /\ Matches(payload.videos[3])
    /\ view.trailer = payload.videos[2].key

\* C9: an absent release_date, vote_average, genres or runtime raises no
\* error and shows "N/A", "0.0/10", no genre and a runtime of 0, each
\* whenever its own field is absent.
AbsentFieldsGetDefaults ==
    view.kind = "header" =>
        /\ (payload.vote_average.has # "null" /\ payload.genres.has # "null")
               => ~view.error
        /\ ~view.error =>
               /\ payload.release_date = Absent => view.release_date = "N/A"
               /\ payload.vote_average.has = "absent" => view.rating = "0.0/10"
               /\ payload.genres.has = "absent" =>
                      view.genre_names = <<>> /\ view.genres = ""
               /\ payload.runtime.has = "absent" => view.runtime = "0 min"

\* all four fields absent
AbsentFieldsGetDefaults_Witness ==
    /\ view.kind = "header" /\ ~view.error
    /\ payload.release_date = Absent /\ payload.vote_average.has = "absent"
    /\ payload.genres.has = "absent" /\ payload.runtime.has = "absent"
    /\ view.rating = "0.0/10" /\ view.runtime = "0 min"

====
